---- MODULE Spec2Model ----
(***************************************************************************)
(* Model of the FT6336 touch controller driver (src/src/lib.rs) and of its *)
(* touch report decoder PointsIter (src/src/touch.rs).                     *)
(*                                                                         *)
(* The I2C bus is the external collaborator: every transaction it is asked *)
(* to perform either succeeds (and, for a read, returns bytes) or fails    *)
(* with an error kind; the choice is the environment's.                    *)
(***************************************************************************)
EXTENDS Integers, Sequences, FiniteSets, TLC

VARIABLES
    call,      \* the driver method called last, with its argument
    txns,      \* the bus transactions that call issued, in order, with outcomes
    ret,       \* what that call returned
    touches,   \* what the panel reported when the held block was fetched
    live,      \* whether a PointsIter has been obtained
    data,      \* the data of the PointsIter obtained last
    calls,     \* number of next() calls made on iter
    last,      \* what the last next() call on iter did
    accessed,  \* buffer indices the last next() call indexed, in order
    yielded    \* the Points iter has yielded so far, in order

vars == <<call, txns, ret, touches, live, data, calls, last, accessed, yielded>>

iterVars == <<touches, live, data, calls, last, accessed, yielded>>

(***************************************************************************)
(* Program constants                                                       *)
(***************************************************************************)
FT6336_ADDR == 56

REG_TOUCH_COUNT == 2

BufLen == 11

RawLen == 13

(***************************************************************************)
(* Bounds of the model                                                     *)
(***************************************************************************)
\* next() calls made on one iterator
MaxCalls == 4

(***************************************************************************)
(* Fixed-width arithmetic                                                  *)
(***************************************************************************)
Pow2(n) == IF n = 0 THEN 1 ELSE IF n = 1 THEN 2 ELSE IF n = 2 THEN 4
           ELSE IF n = 3 THEN 8 ELSE IF n = 4 THEN 16 ELSE IF n = 5 THEN 32
           ELSE IF n = 6 THEN 64 ELSE IF n = 7 THEN 128 ELSE 256

\* u8 >> n
Shr(b, n) == b \div Pow2(n)

\* u8 & 0xF
AndF(b) == b % 16

\* (v as u16) << 8
Shl8U16(v) == (v * 256) % 65536

\* u16 + u16; the operands here are at most 0xF00 and 0xFF, so no overflow
AddU16(a, b) == (a + b) % 65536

(***************************************************************************)
(* Results                                                                 *)
(***************************************************************************)
\* values kept in the state are tuples, read through the operators below
Ok(v) == <<"Ok", v>>

Err(e) == <<"Err", e>>

IsErr(r) == r[1] = "Err"

IsOk(r) == r[1] = "Ok"

\* the value of an Ok, the error of an Err, the Point of a Some
Payload(r) == r[2]

Unit == <<>>

\* impl From<T: I2cError> for Error
From(kind) == <<"I2cError", kind>>

(***************************************************************************)
(* Touch report decoder                                                    *)
(***************************************************************************)
from_primitive_strict(n) ==
    CASE n = 0 -> "PressDown"
      [] n = 1 -> "LiftUp"
      [] n = 2 -> "Contact"
      [] OTHER -> "Invalid"

\* PointAction::from_primitive, derived by num_enum with NoAction as default
from_primitive(n) ==
    CASE n = 0 -> "PressDown"
      [] n = 1 -> "LiftUp"
      [] n = 2 -> "Contact"
      [] OTHER -> "NoAction"

index_base_first(cursor) == 1

\* let index_base = 1 + (self.data[0] as usize) * 6;
index_base(cursor) == 1 + cursor * 6

\* the indices the Point literal indexes, in evaluation order
PointReads(base) == <<base + 2, base, base, base + 1, base + 2, base + 3>>

InBounds(i) == i >= 0 /\ i < BufLen

\* the reads attempted: up to and including the first one out of bounds
Attempted(base) ==
    LET r == PointReads(base)
        bad == {k \in 1 .. Len(r) : ~InBounds(r[k])}
    IN  IF bad = {} THEN r
        ELSE SubSeq(r, 1, CHOOSE k \in bad : \A j \in bad : k <= j)

AllInBounds(reads) == \A k \in 1 .. Len(reads) : InBounds(reads[k])

\* struct Point
Point(index, action, x, y) == <<index, action, x, y>>

PIndex(p) == p[1]

PAction(p) == p[2]

PX(p) == p[3]

PY(p) == p[4]

point_at_widemask(d, base) ==
    Point(Shr(d[base + 2], 4),
          from_primitive(Shr(d[base], 6)),
          AddU16(Shl8U16(d[base] % 64), d[base + 1]),
          AddU16(Shl8U16(AndF(d[base + 2])), d[base + 3]))

\* the Point literal of next()
point_at(d, base) ==
    Point(Shr(d[base + 2], 4),
          from_primitive(Shr(d[base], 6)),
          AddU16(Shl8U16(AndF(d[base])), d[base + 1]),
          AddU16(Shl8U16(AndF(d[base + 2])), d[base + 3]))

None == <<"None">>

Some(p) == <<"Some", p>>

Panic == <<"Panic">>

NotCalled == <<"NotCalled">>

IsSome(r) == r[1] = "Some"

\* a cursor that is decremented without the > 0 guard wraps
next_wrap(buf) ==
    LET d == [buf EXCEPT ![0] = (@ + 255) % 256]
        base == index_base(d[0])
    IN  IF AllInBounds(Attempted(base))
        THEN [data |-> d, ret |-> Some(point_at(d, base)),
              accessed |-> <<0>> \o Attempted(base)]
        ELSE [data |-> d, ret |-> Panic, accessed |-> <<0>> \o Attempted(base)]

\* a next() that zeroes the record it has consumed
next_clobber(buf) ==
    IF buf[0] > 0
    THEN LET d == [buf EXCEPT ![0] = @ - 1]
             base == index_base(d[0])
         IN  IF AllInBounds(Attempted(base))
             THEN [data |-> [i \in DOMAIN d |->
                                IF i >= base /\ i <= base + 3 THEN 0 ELSE d[i]],
                   ret |-> Some(point_at(d, base)),
                   accessed |-> <<0>> \o Attempted(base)]
             ELSE [data |-> d, ret |-> Panic,
                   accessed |-> <<0>> \o Attempted(base)]
    ELSE [data |-> buf, ret |-> None, accessed |-> <<0>>]

\* PointsIter::next: the buffer afterwards, what is returned, what was indexed
next(buf) ==
    IF buf[0] > 0
    THEN LET d == [buf EXCEPT ![0] = @ - 1]
             base == index_base(d[0])
         IN  IF AllInBounds(Attempted(base))
             THEN [data |-> d, ret |-> Some(point_at(d, base)),
                   accessed |-> <<0>> \o Attempted(base)]
             ELSE [data |-> d, ret |-> Panic,
                   accessed |-> <<0>> \o Attempted(base)]
    ELSE [data |-> buf, ret |-> None, accessed |-> <<0>>]

(***************************************************************************)
(* The panel: what the chip puts in the registers from 0x02 on             *)
(***************************************************************************)
\* one touch as the chip reports it; junk is bits [5:4] of the record's
\* byte 0 and pad fills its bytes 4-5
Touch(a, x, y, i, junk, pad) == <<a, x, y, i, junk, pad>>

TAction(t) == t[1]

TX(t) == t[2]

TY(t) == t[3]

TIndex(t) == t[4]

TJunk(t) == t[5]

TPad(t) == t[6]

\* the 6-byte point record of a touch
Pack(t) ==
    << TAction(t) * 64 + TJunk(t) * 16 + (TX(t) \div 256),
       TX(t) % 256,
       TIndex(t) * 16 + (TY(t) \div 256),
       TY(t) % 256,
       TPad(t),
       TPad(t) >>

\* a panel: the touch count it declares and its two touch records
Panel(count, t1, t2) == <<count, t1, t2>>

Count(p) == p[1]

T1(p) == p[2]

T2(p) == p[3]

\* the first n bytes of the registers from 0x02 on, indexed from 0
Report(p, n) ==
    LET full == <<Count(p)>> \o Pack(T1(p)) \o Pack(T2(p))
    IN  [i \in 0 .. n - 1 |-> full[i + 1]]

CoordSamples == {0, 1, 255, 256, 2748, 4095}

IndexSamples == {0, 5, 15}

\* touches over the sampled coordinates
SampledTouches ==
    {Touch(a, x, y, i, j, p) :
        a \in 0 .. 3, x \in CoordSamples, y \in CoordSamples,
        i \in IndexSamples, j \in {0, 3}, p \in {0, 255}}

\* touches whose record byte 0 takes every value 0..255
Byte0Touches ==
    {Touch(a, h * 256 + 52, 1110, 10, j, 0) : a \in 0 .. 3, h \in 0 .. 15, j \in 0 .. 3}

AllTouches == SampledTouches \cup Byte0Touches

FillerTouches == {Touch(1, 291, 1110, 2, 0, 0), Touch(3, 4095, 4095, 15, 3, 255)}

\* the count byte, in range (0..2) and corrupted
CountSamples == {0, 1, 2, 3, 255}

\* the panels the decoder is run on: one slot varies widely, the other little
Panels ==
    {Panel(c, a, b) :
        c \in CountSamples, a \in AllTouches, b \in FillerTouches}
    \cup
    {Panel(c, a, b) :
        c \in CountSamples, a \in FillerTouches, b \in AllTouches}

\* the panels the whole driver is run on
DriverPanels ==
    {Panel(c, Touch(0, 291, 1110, 0, 0, 0), Touch(2, 4095, 7, 1, 3, 255)) :
        c \in {0, 2, 3}}

NoPanel == Panel(0, Touch(0, 0, 0, 0, 0, 0), Touch(0, 0, 0, 0, 0, 0))

(***************************************************************************)
(* The bus                                                                 *)
(***************************************************************************)
ErrorKinds == {"Bus", "NoAcknowledge"}

\* what the bus answers: whether it succeeded, the error kind, the bytes read
Success(bytes) == <<TRUE, "none", bytes>>

Failure(kind) == <<FALSE, kind, <<>> >>

Succeeded(out) == out[1]

KindOf(out) == out[2]

BytesOf(out) == out[3]

Failures == {Failure(k) : k \in ErrorKinds}

WriteOutcomes == {Success(<<>>)} \cup Failures

ByteSamples == {1, 171}

\* a read buffer, indexed from 0
Buf(seq) == [i \in 0 .. Len(seq) - 1 |-> seq[i + 1]]

Read1Outcomes == {Success(Buf(<<b>>)) : b \in ByteSamples} \cup Failures

Read2Outcomes == {Success(Buf(<<171, 205>>)), Success(Buf(<<1, 2>>))} \cup Failures

\* I2c::write(address, bytes), with the outcome the bus gave
I2cWrite(addr, bytes, out) ==
    <<"write", addr, bytes, 0, Succeeded(out), KindOf(out)>>

\* I2c::write_read(address, bytes, buffer), with the outcome the bus gave
I2cWriteRead(addr, bytes, n, out) ==
    <<"write_read", addr, bytes, n, Succeeded(out), KindOf(out)>>

\* the fields of a logged transaction
TOp(t) == t[1]

TAddr(t) == t[2]

TWritten(t) == t[3]

TReadLen(t) == t[4]

TOk(t) == t[5]

TKind(t) == t[6]

(***************************************************************************)
(* Register transport: each gives the transactions issued and the result   *)
(***************************************************************************)
read_u8(reg, out) ==
    [txns |-> <<I2cWriteRead(FT6336_ADDR, <<reg>>, 1, out)>>,
     res  |-> IF Succeeded(out) THEN Ok(BytesOf(out)[0]) ELSE Err(From(KindOf(out)))]

\* a write done as read-modify-write, like the disabled write_bit helper
write_u8_rmw(reg, value, out) ==
    [txns |-> <<I2cWriteRead(FT6336_ADDR, <<reg>>, 1, out),
                I2cWrite(FT6336_ADDR, <<reg, value>>, out)>>,
     res  |-> IF Succeeded(out) THEN Ok(Unit) ELSE Err(From(KindOf(out)))]

write_u8(reg, value, out) ==
    [txns |-> <<I2cWrite(FT6336_ADDR, <<reg, value>>, out)>>,
     res  |-> IF Succeeded(out) THEN Ok(Unit) ELSE Err(From(KindOf(out)))]

\* buf is what the caller's buffer holds afterwards
read_buf(reg, n, out) ==
    [txns |-> <<I2cWriteRead(FT6336_ADDR, <<reg>>, n, out)>>,
     res  |-> IF Succeeded(out) THEN Ok(Unit) ELSE Err(From(KindOf(out))),
     buf  |-> IF Succeeded(out) THEN BytesOf(out) ELSE [i \in 0 .. n - 1 |-> 0]]

(***************************************************************************)
(* Driver methods: each gives the transactions issued and the result       *)
(***************************************************************************)
init(out) == write_u8(0, 0, out)

\* a chip_code that goes on reading after a failed read
chip_code_goes_on(o1, o2, o3) ==
    LET low  == read_u8(160, o1)
        mid  == read_u8(159, o2)
        high == read_u8(163, o3)
        all  == low.txns \o mid.txns \o high.txns
    IN  IF IsErr(low.res) THEN [txns |-> all, res |-> low.res]
        ELSE IF IsErr(mid.res) THEN [txns |-> all, res |-> mid.res]
        ELSE IF IsErr(high.res) THEN [txns |-> all, res |-> high.res]
        ELSE [txns |-> all, res |-> Ok(<<Payload(low.res), Payload(mid.res), Payload(high.res)>>)]

chip_code(o1, o2, o3) ==
    LET low == read_u8(160, o1)
    IN  IF IsErr(low.res) THEN low
        ELSE LET mid == read_u8(159, o2)
             IN  IF IsErr(mid.res)
                 THEN [txns |-> low.txns \o mid.txns, res |-> mid.res]
                 ELSE LET high == read_u8(163, o3)
                          all  == low.txns \o mid.txns \o high.txns
                      IN  IF IsErr(high.res)
                          THEN [txns |-> all, res |-> high.res]
                          ELSE [txns |-> all,
                                res  |-> Ok(<<Payload(low.res), Payload(mid.res), Payload(high.res)>>)]

applib_version(out) ==
    LET r == read_buf(161, 2, out)
    IN  IF IsErr(r.res) THEN [txns |-> r.txns, res |-> r.res]
        ELSE [txns |-> r.txns, res |-> Ok(<<r.buf[1], r.buf[0]>>)]

firmware_version(out) == read_u8(166, out)

vender_id(out) == read_u8(168, out)

release_code(out) == read_u8(175, out)

set_use_freqency_hopping(value, out) ==
    IF value THEN write_u8(139, 1, out) ELSE write_u8(139, 0, out)

interrupt_by_pulse(out) == write_u8(164, 1, out)

interrupt_by_state(out) == write_u8(164, 0, out)

set_auto_monitor_mode(value, out) ==
    IF value THEN write_u8(134, 1, out) ELSE write_u8(134, 0, out)

set_auto_monitor_mode_delay_unclamped(value, out) == write_u8(135, value, out)

set_auto_monitor_mode_delay(value, out) ==
    IF value > 100 THEN write_u8(135, 100, out) ELSE write_u8(135, value, out)

set_scan_rate_no_floor(value, out) ==
    IF value > 20 THEN write_u8(136, 20, out) ELSE write_u8(136, value, out)

set_scan_rate(value, out) ==
    IF value < 4 THEN write_u8(136, 4, out)
    ELSE IF value > 20 THEN write_u8(136, 20, out)
    ELSE write_u8(136, value, out)

set_monitor_scan_rate(value, out) ==
    IF value < 4 THEN write_u8(137, 4, out)
    ELSE IF value > 20 THEN write_u8(137, 20, out)
    ELSE write_u8(137, value, out)

PowerModes == {"Active", "Monitor", "Standby", "Hibernate"}

\* PowerMode as u8 (IntoPrimitive)
PowerMode_into(m) ==
    CASE m = "Active" -> 0
      [] m = "Monitor" -> 1
      [] m = "Standby" -> 2
      [] m = "Hibernate" -> 3

set_power_mode(value, out) == write_u8(165, PowerMode_into(value), out)

touch_count(out) == read_u8(REG_TOUCH_COUNT, out)

touches_raw(out) ==
    LET r == read_buf(REG_TOUCH_COUNT, RawLen, out)
    IN  IF IsErr(r.res) THEN [txns |-> r.txns, res |-> r.res]
        ELSE [txns |-> r.txns, res |-> Ok(r.buf)]

touch_points_iter(out) ==
    LET r == read_buf(REG_TOUCH_COUNT, BufLen, out)
    IN  IF IsErr(r.res) THEN [txns |-> r.txns, res |-> r.res]
        ELSE [txns |-> r.txns, res |-> Ok(r.buf)]

(***************************************************************************)
(* The driver as a state machine                                           *)
(***************************************************************************)
ValueSamples == {0, 3, 4, 5, 10, 19, 20, 21, 30, 99, 100, 101, 200, 255}

NoData == [i \in 0 .. BufLen - 1 |-> 0]

\* a method call: its name and its argument
Call(name, arg) == <<name, arg>>

CallName(c) == c[1]

CallArg(c) == c[2]

\* Ft6336::new
Init ==
    /\ call = Call("new", Unit)
    /\ txns = <<>>
    /\ ret = Ok(Unit)
    /\ touches = NoPanel
    /\ live = FALSE
    /\ data = NoData
    /\ calls = 0
    /\ last = NotCalled
    /\ accessed = <<>>
    /\ yielded = <<>>

DoInit ==
    \E out \in WriteOutcomes :
        LET r == init(out)
        IN  /\ call' = Call("init", Unit)
            /\ txns' = r.txns
            /\ ret' = r.res
            /\ UNCHANGED iterVars

ChipCode ==
    \E o1 \in Read1Outcomes, o2 \in Read1Outcomes, o3 \in Read1Outcomes :
        LET r == chip_code(o1, o2, o3)
        IN  /\ call' = Call("chip_code", Unit)
            /\ txns' = r.txns
            /\ ret' = r.res
            /\ UNCHANGED iterVars

ApplibVersion ==
    \E out \in Read2Outcomes :
        LET r == applib_version(out)
        IN  /\ call' = Call("applib_version", Unit)
            /\ txns' = r.txns
            /\ ret' = r.res
            /\ UNCHANGED iterVars

FirmwareVersion ==
    \E out \in Read1Outcomes :
        LET r == firmware_version(out)
        IN  /\ call' = Call("firmware_version", Unit)
            /\ txns' = r.txns
            /\ ret' = r.res
            /\ UNCHANGED iterVars

VenderId ==
    \E out \in Read1Outcomes :
        LET r == vender_id(out)
        IN  /\ call' = Call("vender_id", Unit)
            /\ txns' = r.txns
            /\ ret' = r.res
            /\ UNCHANGED iterVars

ReleaseCode ==
    \E out \in Read1Outcomes :
        LET r == release_code(out)
        IN  /\ call' = Call("release_code", Unit)
            /\ txns' = r.txns
            /\ ret' = r.res
            /\ UNCHANGED iterVars

SetUseFreqencyHopping ==
    \E value \in BOOLEAN, out \in WriteOutcomes :
        LET r == set_use_freqency_hopping(value, out)
        IN  /\ call' = Call("set_use_freqency_hopping", value)
            /\ txns' = r.txns
            /\ ret' = r.res
            /\ UNCHANGED iterVars

InterruptByPulse ==
    \E out \in WriteOutcomes :
        LET r == interrupt_by_pulse(out)
        IN  /\ call' = Call("interrupt_by_pulse", Unit)
            /\ txns' = r.txns
            /\ ret' = r.res
            /\ UNCHANGED iterVars

InterruptByState ==
    \E out \in WriteOutcomes :
        LET r == interrupt_by_state(out)
        IN  /\ call' = Call("interrupt_by_state", Unit)
            /\ txns' = r.txns
            /\ ret' = r.res
            /\ UNCHANGED iterVars

SetAutoMonitorMode ==
    \E value \in BOOLEAN, out \in WriteOutcomes :
        LET r == set_auto_monitor_mode(value, out)
        IN  /\ call' = Call("set_auto_monitor_mode", value)
            /\ txns' = r.txns
            /\ ret' = r.res
            /\ UNCHANGED iterVars

SetAutoMonitorModeDelay(values) ==
    \E value \in values, out \in WriteOutcomes :
        LET r == set_auto_monitor_mode_delay(value, out)
        IN  /\ call' = Call("set_auto_monitor_mode_delay", value)
            /\ txns' = r.txns
            /\ ret' = r.res
            /\ UNCHANGED iterVars

SetScanRate(values) ==
    \E value \in values, out \in WriteOutcomes :
        LET r == set_scan_rate(value, out)
        IN  /\ call' = Call("set_scan_rate", value)
            /\ txns' = r.txns
            /\ ret' = r.res
            /\ UNCHANGED iterVars

SetMonitorScanRate(values) ==
    \E value \in values, out \in WriteOutcomes :
        LET r == set_monitor_scan_rate(value, out)
        IN  /\ call' = Call("set_monitor_scan_rate", value)
            /\ txns' = r.txns
            /\ ret' = r.res
            /\ UNCHANGED iterVars

SetPowerMode ==
    \E value \in PowerModes, out \in WriteOutcomes :
        LET r == set_power_mode(value, out)
        IN  /\ call' = Call("set_power_mode", value)
            /\ txns' = r.txns
            /\ ret' = r.res
            /\ UNCHANGED iterVars

TouchCount ==
    \E p \in DriverPanels :
        \E out \in {Success(Report(p, 1))} \cup Failures :
        LET r == touch_count(out)
        IN  /\ call' = Call("touch_count", Unit)
            /\ txns' = r.txns
            /\ ret' = r.res
            /\ UNCHANGED iterVars

TouchesRaw ==
    \E p \in DriverPanels :
        \E out \in {Success(Report(p, RawLen))} \cup Failures :
        LET r == touches_raw(out)
        IN  /\ call' = Call("touches_raw", Unit)
            /\ txns' = r.txns
            /\ ret' = r.res
            /\ UNCHANGED iterVars

\* on success the caller holds a fresh iterator; on failure it holds what it held
TouchPointsIter ==
    \E p \in DriverPanels :
        \E out \in {Success(Report(p, BufLen))} \cup Failures :
            LET r == touch_points_iter(out)
            IN  /\ call' = Call("touch_points_iter", Unit)
                /\ txns' = r.txns
                /\ ret' = r.res
                /\ IF IsErr(r.res)
                   THEN UNCHANGED iterVars
                   ELSE /\ touches' = p
                        /\ live' = TRUE
                        /\ data' = Payload(r.res)
                        /\ calls' = 0
                        /\ last' = NotCalled
                        /\ accessed' = <<>>
                        /\ yielded' = <<>>

\* one call of next() on the iterator held; a panic unwinds and leaves the
\* iterator as it was when the panic happened
NextPoint ==
    /\ live
    /\ calls < MaxCalls
    /\ LET r == next(data)
       IN  /\ data' = r.data
           /\ last' = r.ret
           /\ accessed' = r.accessed
           /\ yielded' = IF IsSome(r.ret)
                         THEN Append(yielded, Payload(r.ret)) ELSE yielded
    /\ calls' = calls + 1
    /\ UNCHANGED <<touches, live, call, txns, ret>>

Next ==
    \/ DoInit
    \/ ChipCode
    \/ ApplibVersion
    \/ FirmwareVersion
    \/ VenderId
    \/ ReleaseCode
    \/ SetUseFreqencyHopping
    \/ InterruptByPulse
    \/ InterruptByState
    \/ SetAutoMonitorMode
    \/ SetAutoMonitorModeDelay(ValueSamples)
    \/ SetScanRate(ValueSamples)
    \/ SetMonitorScanRate(ValueSamples)
    \/ SetPowerMode
    \/ TouchCount
    \/ TouchesRaw
    \/ TouchPointsIter
    \/ NextPoint

Spec == Init /\ [][Next]_vars

(***************************************************************************)
(* The decoder alone, on every sampled panel                               *)
(***************************************************************************)
\* the state after touch_points_iter has returned an iterator over the panel
InitDecode ==
    \E p \in Panels :
        LET r == touch_points_iter(Success(Report(p, BufLen)))
        IN  /\ call = Call("touch_points_iter", Unit)
            /\ txns = r.txns
            /\ ret = r.res
            /\ touches = p
            /\ live = TRUE
            /\ data = Payload(r.res)
            /\ calls = 0
            /\ last = NotCalled
            /\ accessed = <<>>
            /\ yielded = <<>>

NextDecode == NextPoint

SpecDecode == InitDecode /\ [][NextDecode]_vars

(***************************************************************************)
(* The clamping setters alone, on every u8 input                           *)
(***************************************************************************)
U8 == 0 .. 255

NextSetters ==
    \/ SetAutoMonitorModeDelay(U8)
    \/ SetScanRate(U8)
    \/ SetMonitorScanRate(U8)

SpecSetters == Init /\ [][NextSetters]_vars

(***************************************************************************)
(* Properties                                                              *)
(***************************************************************************)
\* the action an action code stands for
ActionName(code) ==
    CASE code = 0 -> "PressDown"
      [] code = 1 -> "LiftUp"
      [] code = 2 -> "Contact"
      [] code = 3 -> "NoAction"

\* the action code of an action
ActionCode(action) ==
    CASE action = "PressDown" -> 0
      [] action = "LiftUp" -> 1
      [] action = "Contact" -> 2
      [] action = "NoAction" -> 3

\* the Point a touch of the panel stands for
PointOf(t) == Point(TIndex(t), ActionName(TAction(t)), TX(t), TY(t))

\* the touch whose record the last next() call decoded: the cursor it left
\* is the number of the record, counted from 0
DecodedTouch == IF data[0] = 0 THEN T1(touches) ELSE T2(touches)

\* C1: whatever the count byte of the block, no call of next() indexes the
\* buffer outside 0..10, and none panics.
C1_NeverOutOfBounds == last /= Panic /\ AllInBounds(accessed)

\* the Points a panel with a count byte of 0, 1 or 2 is to yield
Expected(p) ==
    CASE Count(p) = 0 -> <<>>
      [] Count(p) = 1 -> <<PointOf(T1(p))>>
      [] Count(p) = 2 -> <<PointOf(T2(p)), PointOf(T1(p))>>

\* C2: with a count byte c of 0, 1 or 2, the first c calls of next() yield
\* the Point of the record at offset 7 (when c = 2) and then the Point of the
\* record at offset 1, and every call after them returns None having yielded
\* exactly those c Points.
C2_YieldsCountPointsHighestFirst ==
    (live /\ Count(touches) \in 0 .. 2) =>
        LET e == Expected(touches)
            c == Count(touches)
        IN  /\ calls <= c => yielded = SubSeq(e, 1, calls)
            /\ (calls >= 1 /\ calls <= c) => last = Some(e[calls])
            /\ calls > c => (last = None /\ yielded = e)

C2_Witness ==
    /\ live
    /\ Count(touches) = 2
    /\ last = None
    /\ Len(yielded) = 2
    /\ yielded[1] = PointOf(T2(touches))
    /\ yielded[2] = PointOf(T1(touches))
    /\ yielded[1] /= yielded[2]

\* C3: a record packed from (action, x, y, index) with action in 0..2 decodes
\* to exactly that action, x, y and index, whatever bits [5:4] of its byte 0
\* and its bytes 4-5 hold.
C3_RoundTrip ==
    (live /\ IsSome(last) /\ TAction(DecodedTouch) \in 0 .. 2) =>
        LET p == Payload(last)
            t == DecodedTouch
        IN  /\ ActionCode(PAction(p)) = TAction(t)
            /\ PX(p) = TX(t)
            /\ PY(p) = TY(t)
            /\ PIndex(p) = TIndex(t)

C3_Witness ==
    /\ live
    /\ IsSome(last)
    /\ data[0] = 0
    /\ T1(touches) = Touch(2, 2748, 4095, 15, 3, 255)
    /\ Payload(last) = Point(15, "Contact", 2748, 4095)

\* C4: bits [7:6] of a record's byte 0 decode to PressDown, LiftUp, Contact
\* for 0, 1, 2 and to NoAction for 3; a call of next() whose reads are all
\* inside the buffer always returns a Point, never an error.
C4_ActionDecodeTotal ==
    (live /\ calls >= 1) =>
        \/ last = None
        \/ last = Panic /\ ~AllInBounds(accessed)
        \/ /\ IsSome(last)
           /\ PAction(Payload(last)) = ActionName(Pack(DecodedTouch)[1] \div 64)

C4_Witness ==
    /\ live
    /\ IsSome(last)
    /\ Pack(DecodedTouch)[1] = 255
    /\ PAction(Payload(last)) = "NoAction"

\* what the call of a one-write setter is to leave on the bus and return
WroteOnce(reg, value) ==
    /\ Len(txns) = 1
    /\ TOp(txns[1]) = "write"
    /\ TAddr(txns[1]) = 56
    /\ TReadLen(txns[1]) = 0
    /\ TWritten(txns[1]) = <<reg, value>>
    /\ IF TOk(txns[1]) THEN ret = Ok(Unit)
       ELSE IsErr(ret) /\ Payload(ret) = <<"I2cError", TKind(txns[1])>>

\* C5: set_scan_rate writes to register 0x88, and set_monitor_scan_rate to
\* register 0x89, 4 for an input below 4, 20 for an input above 20 and the
\* input otherwise; the value written is in 4..20 and the call fails only
\* when the bus does.
C5_ScanRateClamped ==
    (CallName(call) \in {"set_scan_rate", "set_monitor_scan_rate"}) =>
        LET v == CallArg(call)
            w == IF v < 4 THEN 4 ELSE IF v > 20 THEN 20 ELSE v
        IN  /\ w \in 4 .. 20
            /\ WroteOnce(IF CallName(call) = "set_scan_rate" THEN 136 ELSE 137, w)

C5_Witness ==
    /\ CallName(call) = "set_scan_rate"
    /\ CallArg(call) = 0
    /\ TWritten(txns[1]) = <<136, 4>>
    /\ ret = Ok(Unit)

\* C6: set_auto_monitor_mode_delay writes to register 0x87 the value 100 for
\* an input above 100 and the input otherwise, 0 included.
C6_DelayClamped ==
    (CallName(call) = "set_auto_monitor_mode_delay") =>
        LET v == CallArg(call)
        IN  WroteOnce(135, IF v > 100 THEN 100 ELSE v)

C6_Witness ==
    /\ CallName(call) = "set_auto_monitor_mode_delay"
    /\ CallArg(call) = 200
    /\ TWritten(txns[1]) = <<135, 100>>

\* the transactions of the last call that failed
FailedTxns == {i \in 1 .. Len(txns) : ~TOk(txns[i])}

ChipCodeRegs == <<160, 159, 163>>

C7_State ==
    /\ FailedTxns \subseteq {Len(txns)}
    /\ FailedTxns /= {} =>
          IsErr(ret) /\ Payload(ret) = <<"I2cError", TKind(txns[Len(txns)])>>
    /\ FailedTxns = {} => IsOk(ret)
    /\ CallName(call) = "chip_code" =>
          /\ Len(txns) <= 3
          /\ \A i \in 1 .. Len(txns) :
                /\ TOp(txns[i]) = "write_read"
                /\ TWritten(txns[i]) = <<ChipCodeRegs[i]>>
          /\ FailedTxns = {} => Len(txns) = 3

\* a call of touch_points_iter that fails hands the caller no iterator
C7_Step ==
    (CallName(call') = "touch_points_iter" /\ IsErr(ret') /\ calls' /= calls + 1)
        => UNCHANGED iterVars

\* C7: in every driver call the first bus transaction that fails is the last
\* one the call issues, and the call returns Error::I2cError with that
\* failure's kind; chip_code reads 0xA0, 0x9F, 0xA3 in that order and stops at
\* the first failure; a failed touch_points_iter returns no iterator.
C7_FailFastNoRetry == [](C7_State) /\ [][C7_Step]_vars

C7_Witness ==
    /\ CallName(call) = "chip_code"
    /\ Len(txns) = 2
    /\ TOk(txns[1])
    /\ ~TOk(txns[2])
    /\ ret = Err(From("NoAcknowledge"))

SetterNames ==
    {"init", "set_use_freqency_hopping", "interrupt_by_pulse", "interrupt_by_state",
     "set_auto_monitor_mode", "set_auto_monitor_mode_delay", "set_scan_rate",
     "set_monitor_scan_rate", "set_power_mode"}

\* the register each setter writes
SetterReg(name) ==
    CASE name = "init" -> 0
      [] name = "set_use_freqency_hopping" -> 139
      [] name = "interrupt_by_pulse" -> 164
      [] name = "interrupt_by_state" -> 164
      [] name = "set_auto_monitor_mode" -> 134
      [] name = "set_auto_monitor_mode_delay" -> 135
      [] name = "set_scan_rate" -> 136
      [] name = "set_monitor_scan_rate" -> 137
      [] name = "set_power_mode" -> 165

\* C8: every configuration setter issues exactly one bus transaction, a write
\* to address 0x38 of two bytes, its register and a value, and no read; the
\* boolean setters write 1 for true and 0 for false, interrupt_by_pulse 1,
\* interrupt_by_state 0, init 0, and set_power_mode 0, 1, 2, 3 for Active,
\* Monitor, Standby, Hibernate.
C8_SetterWritesOnce ==
    (CallName(call) \in SetterNames) =>
        LET name == CallName(call)
            arg  == CallArg(call)
        IN  /\ Len(txns) = 1
            /\ TOp(txns[1]) = "write"
            /\ TAddr(txns[1]) = 56
            /\ TReadLen(txns[1]) = 0
            /\ Len(TWritten(txns[1])) = 2
            /\ TWritten(txns[1])[1] = SetterReg(name)
            /\ TWritten(txns[1])[2] \in 0 .. 255
            /\ name = "init" => TWritten(txns[1])[2] = 0
            /\ name = "interrupt_by_pulse" => TWritten(txns[1])[2] = 1
            /\ name = "interrupt_by_state" => TWritten(txns[1])[2] = 0
            /\ name \in {"set_use_freqency_hopping", "set_auto_monitor_mode"} =>
                  TWritten(txns[1])[2] = (IF arg THEN 1 ELSE 0)
            /\ name = "set_power_mode" =>
                  TWritten(txns[1])[2] =
                      (CASE arg = "Active" -> 0 [] arg = "Monitor" -> 1
                         [] arg = "Standby" -> 2 [] arg = "Hibernate" -> 3)

C8_Witness ==
    /\ CallName(call) = "set_power_mode"
    /\ CallArg(call) = "Hibernate"
    /\ Len(txns) = 1
    /\ TWritten(txns[1]) = <<165, 3>>

C9_State ==
    (live /\ Count(touches) \in 0 .. 2) =>
        data[0] = (IF calls <= Count(touches) THEN Count(touches) - calls ELSE 0)

C9_Step ==
    (live /\ data[0] = 0 /\ calls' = calls + 1) =>
        (last' = None /\ data'[0] = 0 /\ yielded' = yielded)

\* C9: once the cursor is 0 every call of next() returns None, leaves the
\* cursor at 0 and yields nothing; with a count byte c of 0, 1 or 2 the cursor
\* is c less the calls made until it reaches 0, which is after exactly c calls.
C9_ExhaustionTerminal == [](C9_State) /\ [][C9_Step]_vars

C9_Witness ==
    /\ live
    /\ Count(touches) = 2
    /\ calls = 4
    /\ data[0] = 0
    /\ last = None
    /\ Len(yielded) = 2

\* C10: a call of next() issues no bus transaction, leaves bytes 1..10 of the
\* block as they were, and takes exactly 1 from byte 0 when it is above 0 and
\* leaves it at 0 otherwise.
C10_NextOnlyMovesCursor ==
    [][(calls' = calls + 1) =>
          /\ txns' = txns
          /\ call' = call
          /\ ret' = ret
          /\ \A i \in 1 .. 10 : data'[i] = data[i]
          /\ data'[0] = (IF data[0] > 0 THEN data[0] - 1 ELSE 0)
          /\ data'[0] >= 0]_vars

C10_Witness ==
    /\ live
    /\ calls = 1
    /\ IsSome(last)
    /\ data[0] = 1
    /\ Len(txns) = 1
    /\ TOp(txns[1]) = "write_read"

====
